---- MODULE Spec2Model ----
(***************************************************************************)
(* dmoj-submit: the grading-tree flattener, the case/batch renderer, the   *)
(* incremental progress tracker and the submission poll loop of            *)
(* src/src/subcommands.rs, over the API types of src/src/api.rs.           *)
(*                                                                         *)
(* f64 fields are kept as integers: time in milliseconds, memory in KB,    *)
(* points and totals in whole points.                                      *)
(***************************************************************************)
EXTENDS Integers, Sequences, FiniteSets, TLC

VARIABLES
    tree,       \* the Vec<APISubmissionCaseOrBatch> last handed to flatten_cases / extend
    prevTree,   \* the tree handed over before that one
    flat,       \* the last result of flatten_cases (pure-function specification)
    prevFlat,   \* the result of flatten_cases on prevTree
    cases,      \* Progress.cases
    lines,      \* the lines written by spinner.println, oldest first
    spinner,    \* Progress.spinner: "none", "ticking", "cleared", "dropped"
    warns,      \* the number of log::warn! diagnostics of gen_msg
    finishes,   \* the number of calls of Progress::finish
    snaps,      \* the snapshots handed to Progress::extend so far, oldest first
    resp,       \* submit: the API response of the current poll
    polls,      \* submit: the number of requests sent to the submission API
    stdout,     \* submit: what println! wrote, oldest first
    outcome,    \* submit, config: "running", "Ok", or the error returned
    input,      \* what the command was given: the answers to submit's requests
                \* before polling, or the arguments of config
    stored,     \* the configuration confy keeps on disk
    pc          \* position of the driving code

trackerVars == <<cases, lines, spinner, warns, finishes, snaps>>
submitVars == <<resp, polls, stdout, outcome, input, stored>>
vars == <<tree, prevTree, flat, prevFlat, trackerVars, submitVars, pc>>

(***************************************************************************)
(* Bounds of the model.                                                    *)
(***************************************************************************)
\* top-level units per tree and children per batch, flattener specification
FlatTop == 3
FlatBatch == 3
\* the same for the snapshots handed to the tracker, and the number of extend calls
TrackTop == 2
TrackBatch == 1
MaxCalls == 2
\* the same for the snapshots the submission API returns, and the number of polls
PollTop == 1
PollBatch == 1
MaxPolls == 2
\* the display units of the tree whose lines are rendered, and the number of
\* extend calls that render it
RenderUnits == 3
RenderCalls == 2
\* the length of the language argument of config
MaxArgLen == 7

\* Option<T>: None, or Some(x) holding x
None == <<>>
Some(x) == <<x>>
Unwrap(o) == o[1]

(***************************************************************************)
(* API types (api.rs)                                                      *)
(***************************************************************************)
\* the case status codes the snapshots of the model carry
Statuses == <<"AC", "WA">>

\* APISubmissionCase
APISubmissionCase(case_id, status, time, memory, points, total) ==
    [kind |-> "Case", case_id |-> case_id, status |-> status, time |-> time,
     memory |-> memory, points |-> points, total |-> total]

\* APISubmissionBatch
APISubmissionBatch(batch_id, batch_cases, points, total) ==
    [kind |-> "Batch", batch_id |-> batch_id, cases |-> batch_cases,
     points |-> points, total |-> total]

\* The case with id case_id as the judge reports it in grading variant r: the
\* variants differ in the status (and so the points) of every case.
JudgedCase(case_id, r) ==
    LET status == Statuses[((case_id + r) % Len(Statuses)) + 1]
    IN  APISubmissionCase(case_id, status, 100 * case_id, 2048,
                          IF status = "AC" THEN 1 ELSE 0, 1)

\* A tree shape is a sequence over -1 (a standalone case) and k >= 0 (a batch of
\* k cases).  JudgedTree labels it as the judge does: case ids and batch ids
\* count up from 1 in tree order.
RECURSIVE JudgedUnits(_, _, _, _)
JudgedUnits(shape, i, nextCase, r) ==
    IF i > Len(shape) THEN <<>>
    ELSE IF shape[i] = -1
         THEN <<JudgedCase(nextCase, r)>> \o JudgedUnits(shape, i + 1, nextCase + 1, r)
         ELSE <<APISubmissionBatch(i,
                    [k \in 1..shape[i] |-> JudgedCase(nextCase + k - 1, r)],
                    0, 10 * i)>>
              \o JudgedUnits(shape, i + 1, nextCase + shape[i], r)

JudgedTree(shape, r) == JudgedUnits(shape, 1, 1, r)

Shapes(top, batch) == UNION {[1..n -> (-1)..batch] : n \in 0..top}

Trees(top, batch, variants) ==
    {JudgedTree(s, r) : s \in Shapes(top, batch), r \in variants}

FlatTrees == Trees(FlatTop, FlatBatch, {0})
TrackTrees == Trees(TrackTop, TrackBatch, {0, 1})
PollTrees == Trees(PollTop, PollBatch, {0})

IsPrefix(s, t) == Len(s) <= Len(t) /\ SubSeq(t, 1, Len(s)) = s

\* t2 is t1 with only additions: new top-level units appended, or new cases
\* appended to the trailing batch of t1.
IsExtension(t1, t2) ==
    /\ Len(t1) <= Len(t2)
    /\ \A i \in 1..Len(t1) :
          \/ t2[i] = t1[i]
          \/ /\ i = Len(t1)
             /\ t1[i].kind = "Batch" /\ t2[i].kind = "Batch"
             /\ IsPrefix(t1[i].cases, t2[i].cases)
             /\ [t2[i] EXCEPT !.cases = <<>>] = [t1[i] EXCEPT !.cases = <<>>]

\* The growth invariant of the data model: top-level units are only appended and
\* the case list of any existing batch only grows; the fields of an existing
\* unit may be filled in.
IsGrowth(t1, t2) ==
    /\ Len(t1) <= Len(t2)
    /\ \A i \in 1..Len(t1) :
          /\ t2[i].kind = t1[i].kind
          /\ t1[i].kind = "Batch" => Len(t1[i].cases) <= Len(t2[i].cases)

\* The growth invariant with the case lists of the batches before the trailing
\* unit of t1 keeping their length: only the trailing batch of t1 grows.
IsTrailingGrowth(t1, t2) ==
    /\ IsGrowth(t1, t2)
    /\ \A i \in 1..(Len(t1) - 1) :
          t1[i].kind = "Batch" => Len(t1[i].cases) = Len(t2[i].cases)

(***************************************************************************)
(* flatten_cases (subcommands.rs 11-56)                                    *)
(***************************************************************************)
FlattenedCasesItem(is_batched_case, num, item) ==
    [is_batched_case |-> is_batched_case, num |-> num, item |-> item]

\* mutant: the children are zipped with 0.. instead of 1..
BatchChildrenZeroBased(batch) ==
    [k \in 1..Len(batch.cases) |-> FlattenedCasesItem(TRUE, k - 1, batch.cases[k])]

\* the children of a batch, zipped with 1.. (lines 45-51)
BatchChildren(batch) ==
    [k \in 1..Len(batch.cases) |-> FlattenedCasesItem(TRUE, k, batch.cases[k])]

\* mutant: the header keeps the batch's cases vector
BatchHeaderKeepsCases(batch, batch_num) ==
    FlattenedCasesItem(FALSE, batch_num, batch)

\* the batch header: the batch with an empty cases vector (lines 36-43)
BatchHeader(batch, batch_num) ==
    FlattenedCasesItem(FALSE, batch_num, [batch EXCEPT !.cases = <<>>])

\* mutant: a batch's children are pushed before its header
RECURSIVE FlattenLoopChildrenFirst(_, _, _)
FlattenLoopChildrenFirst(rest, batch_num, ret) ==
    IF rest = <<>> THEN ret
    ELSE LET i == Head(rest)
         IN  IF i.kind = "Case"
             THEN FlattenLoopChildrenFirst(Tail(rest), batch_num + 1,
                              Append(ret, FlattenedCasesItem(FALSE, batch_num, i)))
             ELSE FlattenLoopChildrenFirst(Tail(rest), batch_num + 1,
                              Append(ret \o BatchChildren(i), BatchHeader(i, batch_num)))

\* the body of the for loop (lines 23-54)
RECURSIVE FlattenLoop(_, _, _)
FlattenLoop(rest, batch_num, ret) ==
    IF rest = <<>> THEN ret
    ELSE LET i == Head(rest)
         IN  IF i.kind = "Case"
             THEN FlattenLoop(Tail(rest), batch_num + 1,
                              Append(ret, FlattenedCasesItem(FALSE, batch_num, i)))
             ELSE FlattenLoop(Tail(rest), batch_num + 1,
                              Append(ret, BatchHeader(i, batch_num)) \o BatchChildren(i))

flatten_cases(cases_in) == FlattenLoop(cases_in, 1, <<>>)

(***************************************************************************)
(* The flattener as a pure function: flatten a tree, extend the tree,      *)
(* flatten again.                                                          *)
(***************************************************************************)
InitFlatten ==
    /\ tree \in FlatTrees
    /\ prevTree = None
    /\ flat = None
    /\ prevFlat = None
    /\ cases = <<>>
    /\ lines = <<>>
    /\ spinner = "none"
    /\ warns = 0
    /\ finishes = 0
    /\ snaps = <<>>
    /\ resp = None
    /\ polls = 0
    /\ stdout = <<>>
    /\ outcome = "running"
    /\ input = None
    /\ stored = None
    /\ pc = "input"

Flatten ==
    /\ pc = "input"
    /\ flat' = Some(flatten_cases(tree))
    /\ pc' = "flattened"
    /\ UNCHANGED <<tree, prevTree, prevFlat, trackerVars, submitVars>>

\* the judge extends the tree: the old tree and its flattening are kept
ExtendTree ==
    /\ pc = "flattened"
    /\ prevTree = None
    /\ \E t \in FlatTrees :
          /\ IsExtension(tree, t)
          /\ tree' = t
    /\ prevTree' = Some(tree)
    /\ prevFlat' = flat
    /\ flat' = None
    /\ pc' = "input"
    /\ UNCHANGED <<trackerVars, submitVars>>

NextFlatten == Flatten \/ ExtendTree

SpecFlatten == InitFlatten /\ [][NextFlatten]_vars


(***************************************************************************)
(* FlattenedCasesItem::gen_msg (subcommands.rs 58-108)                     *)
(*                                                                         *)
(* A line is kept as its parts: the title with its number, the styled      *)
(* status, and the suffixes that format! puts after them; an absent        *)
(* suffix is the empty sequence.                                           *)
(***************************************************************************)
\* {:.2} of memory / 1024.0, in hundredths of a MB
MemoryMB100(memory) == (memory * 200 + 1024) \div 2048

\* mutant: the guard on the points of an AC case is lost
CaseStatusNoPartial(case) ==
    CASE case.status = "AC" -> [text |-> "AC", style |-> "green"]
      [] case.status = "WA" -> [text |-> "WA", style |-> "red.bright"]
      [] case.status = "TLE" -> [text |-> "TLE", style |-> "black"]
      [] case.status = "SC" -> [text |-> "-", style |-> "black"]
      [] case.status \in {"MLE", "OLE", "RTE", "IR"} ->
            [text |-> case.status, style |-> "red"]
      [] OTHER -> [text |-> case.status, style |-> "plain"]

\* the match on case.status (lines 72-83)
CaseStatus(case) ==
    CASE case.status = "AC" /\ case.points = case.total ->
            [text |-> "AC", style |-> "green"]
      [] case.status = "AC" /\ case.points # case.total ->
            [text |-> "AC", style |-> "yellow.bright"]
      [] case.status = "WA" -> [text |-> "WA", style |-> "red.bright"]
      [] case.status = "TLE" -> [text |-> "TLE", style |-> "black"]
      [] case.status = "SC" -> [text |-> "-", style |-> "black"]
      [] case.status \in {"MLE", "OLE", "RTE", "IR"} ->
            [text |-> case.status, style |-> "red"]
      [] OTHER -> [text |-> case.status, style |-> "plain"]

\* log::warn!("Unexpected case status code") (lines 79-82)
UnexpectedStatus(case) ==
    case.status \notin {"AC", "WA", "TLE", "SC", "MLE", "OLE", "RTE", "IR"}

Line(title, bold, num, status, time_and_mem, points, batch_points) ==
    [title |-> title, bold |-> bold, num |-> num, status |-> status,
     time_and_mem |-> time_and_mem, points |-> points,
     batch_points |-> batch_points]

\* gen_msg with the two suffix decisions of lines 89-99 as parameters: whether
\* a top-level SC case shows its points, and whether a nested case does
gen_msg_variant(self, sc_points, nested_points) ==
    IF self.item.kind = "Case"
    THEN LET case == self.item
             title == IF self.is_batched_case THEN "  Case" ELSE "Test case"
             time_and_mem == IF case.status # "SC"
                             THEN <<case.time, MemoryMB100(case.memory)>>
                             ELSE <<>>
             points == IF \/ self.is_batched_case /\ ~nested_points
                          \/ ~self.is_batched_case /\ case.status = "SC" /\ ~sc_points
                       THEN <<>>
                       ELSE <<case.points, case.total>>
         IN  Line(title, ~self.is_batched_case, self.num, CaseStatus(case),
                  time_and_mem, points, <<>>)
    ELSE Line("Batch", TRUE, self.num, [text |-> "", style |-> ""],
              <<>>, <<>>, <<self.item.total>>)

\* mutant: an SC case never shows its points
gen_msg_sc_bare(self) == gen_msg_variant(self, FALSE, FALSE)

\* mutant: a case nested in a batch shows its points too
gen_msg_nested_points(self) == gen_msg_variant(self, TRUE, TRUE)

gen_msg(self) ==
    IF self.item.kind = "Case"
    THEN LET case == self.item
             title == IF self.is_batched_case THEN "  Case" ELSE "Test case"
             bold == ~self.is_batched_case
             status == CaseStatus(case)
             time_and_mem == <<case.time, MemoryMB100(case.memory)>>
             points == <<case.points, case.total>>
         IN  IF case.status # "SC"
             THEN IF self.is_batched_case
                  THEN Line(title, bold, self.num, status, time_and_mem, <<>>, <<>>)
                  ELSE Line(title, bold, self.num, status, time_and_mem, points, <<>>)
             ELSE IF self.is_batched_case
                  THEN Line(title, bold, self.num, status, <<>>, <<>>, <<>>)
                  ELSE Line(title, bold, self.num, status, <<>>, points, <<>>)
    ELSE Line("Batch", TRUE, self.num, [text |-> "", style |-> ""],
              <<>>, <<>>, <<self.item.total>>)

\* the diagnostics gen_msg logs for one item
gen_msg_warns(self) ==
    IF self.item.kind = "Case" /\ UnexpectedStatus(self.item) THEN 1 ELSE 0

RECURSIVE SumWarns(_)
SumWarns(items) ==
    IF items = <<>> THEN 0 ELSE gen_msg_warns(Head(items)) + SumWarns(Tail(items))

(***************************************************************************)
(* Progress (subcommands.rs 110-141)                                       *)
(***************************************************************************)
\* Vec::split_off(at) panics when at > len
split_off_panics(v, at) == at > Len(v)

\* mutant: the split is one item too early
split_off_early(v, at) == SubSeq(v, IF at > 0 THEN at ELSE 1, Len(v))

\* Vec::split_off(at): the items from index at on (0-based)
split_off(v, at) == SubSeq(v, at + 1, Len(v))

\* Progress::extend panics (line 128)
extend_panics(self_cases, snapshot) ==
    split_off_panics(flatten_cases(snapshot), Len(self_cases))

\* mutant: the split is at the length of the tracker's printed top-level units
new_cases_top_level(self_cases, snapshot) ==
    split_off(flatten_cases(snapshot),
              Len(SelectSeq(self_cases, LAMBDA c : ~c.is_batched_case)))

\* new_cases of Progress::extend (lines 126-129)
new_cases(self_cases, snapshot) ==
    split_off(flatten_cases(snapshot), Len(self_cases))

\* self.cases after the for loop of Progress::extend (lines 132-135)
pushed(self_cases, fresh) == self_cases \o fresh

\* mutant: the lines are printed newest first
printed_reversed(fresh) ==
    [k \in 1..Len(fresh) |-> gen_msg(fresh[Len(fresh) + 1 - k])]

\* the lines the for loop of Progress::extend prints (lines 132-133)
printed(fresh) == [k \in 1..Len(fresh) |-> gen_msg(fresh[k])]

\* Progress::new (lines 116-123)
ProgressNew ==
    /\ spinner' = "ticking"
    /\ cases' = <<>>

\* Progress::extend (lines 125-136); a panic unwinds and drops the tracker
\* without a call of finish
ProgressExtend(snapshot, nextPc) ==
    /\ tree' = snapshot
    /\ snaps' = Append(snaps, snapshot)
    /\ IF extend_panics(cases, snapshot)
       THEN /\ pc' = "panicked"
            /\ spinner' = "dropped"
            /\ UNCHANGED <<cases, lines, warns>>
       ELSE LET fresh == new_cases(cases, snapshot)
            IN  /\ lines' = lines \o printed(fresh)
                /\ warns' = warns + SumWarns(fresh)
                /\ cases' = pushed(cases, fresh)
                /\ pc' = nextPc
                /\ UNCHANGED spinner

\* Progress::finish (lines 138-140): spinner.finish_and_clear()
ProgressFinish ==
    /\ spinner' = "cleared"
    /\ finishes' = finishes + 1

(***************************************************************************)
(* The tracker driven directly: a fresh Progress and up to MaxCalls calls  *)
(* of extend, each with any snapshot.                                      *)
(***************************************************************************)
InitTracker ==
    /\ tree = <<>>
    /\ prevTree = None
    /\ flat = None
    /\ prevFlat = None
    /\ cases = <<>>
    /\ lines = <<>>
    /\ spinner = "ticking"
    /\ warns = 0
    /\ finishes = 0
    /\ snaps = <<>>
    /\ resp = None
    /\ polls = 0
    /\ stdout = <<>>
    /\ outcome = "running"
    /\ input = None
    /\ stored = None
    /\ pc = "active"

TrackerExtend ==
    /\ pc = "active"
    /\ Len(snaps) < MaxCalls
    /\ \E t \in TrackTrees : ProgressExtend(t, "active")
    /\ UNCHANGED <<prevTree, flat, prevFlat, finishes, submitVars>>

NextTracker == TrackerExtend

SpecTracker == InitTracker /\ [][NextTracker]_vars


(***************************************************************************)
(* The renderer behind the tracker: the judge grades one unit after the    *)
(* other, with any status, and the tracker is polled in between.           *)
(***************************************************************************)
\* status codes with the points a case of total 1 earns: every code gen_msg
\* names (lines 73-78), AC with full and with partial points, and a code it
\* does not know
CaseKinds ==
    {[status |-> "AC", points |-> 1], [status |-> "AC", points |-> 0]}
    \cup {[status |-> c, points |-> 0] :
            c \in {"WA", "TLE", "SC", "MLE", "OLE", "RTE", "IR", "XX"}}

GradedCase(case_id, k) ==
    APISubmissionCase(case_id, k.status, 100 * case_id, 2048, k.points, 1)

\* the cases of a tree, top-level or nested
RECURSIVE CountCases(_)
CountCases(t) ==
    IF t = <<>> THEN 0
    ELSE (IF Head(t).kind = "Case" THEN 1 ELSE Len(Head(t).cases))
         + CountCases(Tail(t))

\* the judge reports one more unit: a top-level case, an empty batch, or a
\* case in the trailing batch
RenderGrow ==
    /\ pc = "active"
    /\ Len(flatten_cases(tree)) < RenderUnits
    /\ \/ \E k \in CaseKinds :
             tree' = Append(tree, GradedCase(CountCases(tree) + 1, k))
       \/ tree' = Append(tree, APISubmissionBatch(Len(tree) + 1, <<>>, 0,
                                                   10 * (Len(tree) + 1)))
       \/ /\ tree # <<>>
          /\ tree[Len(tree)].kind = "Batch"
          /\ \E k \in CaseKinds :
                tree' = [tree EXCEPT ![Len(tree)].cases =
                            Append(@, GradedCase(CountCases(tree) + 1, k))]
    /\ UNCHANGED <<prevTree, flat, prevFlat, trackerVars, submitVars, pc>>

\* one iteration's progress.extend with the tree as it is now
RenderPoll ==
    /\ pc = "active"
    /\ Len(snaps) < RenderCalls
    /\ ProgressExtend(tree, "active")
    /\ UNCHANGED <<prevTree, flat, prevFlat, finishes, submitVars>>

NextRender == RenderGrow \/ RenderPoll

SpecRender == InitTracker /\ [][NextRender]_vars


(***************************************************************************)
(* submit (subcommands.rs 143-282)                                         *)
(***************************************************************************)
\* What the judge's site answers before polling starts: get_languages, the
\* lookup of the language key, and the POST of the submission.  The redirect
\* policy captures a URL only for a 3xx answer that carries a Location.
SetupInputs ==
    {i \in [langs : {"ok", "err"}, key_known : BOOLEAN, sent : BOOLEAN,
            redirected : BOOLEAN, status : {200, 301, 302, 401}] :
        i.redirected => i.status \in {301, 302}}

\* lines 183-198
StatusError(res) ==
    CASE res = 400 -> "Error 400, bad request, the header you provided is invalid"
      [] res = 401 -> "Error 401, unauthorized, the token you provided is invalid"
      [] res = 403 -> "Error 403, forbidden, you are trying to access the admin portion of the site"
      [] res = 404 -> "Error 404, not found, the problem does not exist"
      [] res = 500 -> "Error 500, internal server error"
      [] OTHER -> "Code, unknown network error"

\* mutant: the status of the answer is tested before the captured redirect
SetupResultStatusFirst(i) ==
    IF i.langs = "err" THEN "get_languages failed"
    ELSE IF ~i.key_known THEN "could not determine language id"
    ELSE IF ~i.sent THEN "send failed"
    ELSE IF i.status # 302 THEN StatusError(i.status)
    ELSE IF ~i.redirected
         THEN "Submission request did not get redirected to the submission page"
    ELSE "Ok"

\* lines 145-204: "Ok" when polling starts, otherwise the error returned
SetupResult(i) ==
    IF i.langs = "err" THEN "get_languages failed"
    ELSE IF ~i.key_known THEN "could not determine language id"
    ELSE IF ~i.sent THEN "send failed"
    ELSE IF ~i.redirected
         THEN "Submission request did not get redirected to the submission page"
    ELSE IF i.status # 302 THEN StatusError(i.status)
    ELSE "Ok"

\* APIResponse<APISingleData<APISubmission>> as the poll loop reads it; kind
\* tells which branch of lines 212-273 it takes
Response(kind, snapshot, result, time, memory) ==
    [kind |-> kind, cases |-> snapshot, result |-> result, time |-> time,
     memory |-> memory, case_points |-> 1, case_total |-> 2]

\* APISubmission.result: a scoring result, a time limit, and the three results
\* the summary treats apart (lines 237-242)
Results == {"AC", "TLE", "IE", "CE", "AB"}

Responses ==
    {Response(k, <<>>, None, None, None) :
        k \in {"send_err", "json_err", "api_error", "neither"}}
    \cup {Response("data", t, None, None, None) : t \in PollTrees}
    \cup {Response("data", t, Some(r), tm, mem) :
            t \in PollTrees, r \in Results,
            tm \in {None, Some(1500)}, mem \in {None, Some(2048)}}

\* lines 212-228 and 269-273: the error the iteration returns, "" when the
\* response carries data
FetchError(r) ==
    CASE r.kind = "send_err" -> "send failed"
      [] r.kind = "json_err" -> "converting API response to json failed"
      [] r.kind = "api_error" -> "API request failed with code and message"
      [] r.kind = "neither" -> "Neither data nor error were defined in the API response"
      [] OTHER -> ""

OutLine(text, time, memory, score) ==
    [text |-> text, time |-> time, memory |-> memory, score |-> score]

\* mutant: the time is unwrapped before the result is compared with "TLE"
SummaryPanicsTleReadsTime(r) ==
    LET result == Unwrap(r.result)
    IN  /\ result \notin {"IE", "CE", "AB"}
        /\ \/ r.time = None
           \/ r.memory = None

\* Option::unwrap of lines 251 and 253 panics
SummaryPanics(r) ==
    LET result == Unwrap(r.result)
    IN  /\ result \notin {"IE", "CE", "AB"}
        /\ \/ result # "TLE" /\ r.time = None
           \/ r.memory = None

\* what lines 236-266 print
Summary(r) ==
    LET result == Unwrap(r.result)
    IN  CASE result = "IE" ->
                <<OutLine("An internal error occurred while grading", None, None, None)>>
          [] result = "CE" -> <<OutLine("Compilation error", None, None, None)>>
          [] result = "AB" -> <<OutLine("Submission aborted!", None, None, None)>>
          [] OTHER ->
                <<OutLine("Resources:",
                          IF result = "TLE" THEN None ELSE r.time,
                          Some(MemoryMB100(Unwrap(r.memory))), None),
                  OutLine("Final score:", None, None,
                          <<r.case_points, r.case_total>>)>>

\* mutant: the terminal result is looked at before the cases are handed over
AfterDataResultFirst(r) == IF r.result # None THEN "finish" ELSE "extend"

\* line 229: with data, the cases go to progress.extend first
AfterData(r) == "extend"

\* line 231: if let Some(result) = data.object.result
AfterExtend(r) == IF r.result # None THEN "finish" ELSE "sleep"

\* mutant: no break after the summary
AfterSummaryNoBreak == "sleep"

\* line 267: break, and Ok(()) of line 281
AfterSummary == "returned"

InitSubmit ==
    /\ tree = <<>>
    /\ prevTree = None
    /\ flat = None
    /\ prevFlat = None
    /\ cases = <<>>
    /\ lines = <<>>
    /\ spinner = "none"
    /\ warns = 0
    /\ finishes = 0
    /\ snaps = <<>>
    /\ resp = None
    /\ polls = 0
    /\ stdout = <<>>
    /\ outcome = "running"
    /\ input = None
    /\ stored = None
    /\ pc = "start"

\* lines 143-208: up to Progress::new
Setup ==
    /\ pc = "start"
    /\ \E i \in SetupInputs :
          /\ input' = Some(i)
          /\ IF SetupResult(i) = "Ok"
             THEN /\ ProgressNew
                  /\ pc' = "fetch"
                  /\ UNCHANGED outcome
             ELSE /\ outcome' = SetupResult(i)
                  /\ pc' = "returned"
                  /\ UNCHANGED <<cases, spinner>>
    /\ UNCHANGED <<tree, prevTree, flat, prevFlat, lines, warns, finishes, snaps,
                   resp, polls, stdout, stored>>

\* lines 210-228, 269-273: one request to the submission API; an error
\* returns from submit, which drops the tracker without a call of finish
Fetch ==
    /\ pc = "fetch"
    /\ polls < MaxPolls
    /\ polls' = polls + 1
    /\ \E r \in Responses :
          /\ resp' = Some(r)
          /\ IF FetchError(r) # ""
             THEN /\ outcome' = FetchError(r)
                  /\ spinner' = "dropped"
                  /\ pc' = "returned"
             ELSE /\ pc' = AfterData(r)
                  /\ UNCHANGED <<outcome, spinner>>
    /\ UNCHANGED <<tree, prevTree, flat, prevFlat, cases, lines, warns, finishes,
                   snaps, stdout, input, stored>>

\* line 229: progress.extend(data.object.cases), then the test of line 231
Extend ==
    /\ pc = "extend"
    /\ ProgressExtend(Unwrap(resp).cases, AfterExtend(Unwrap(resp)))
    /\ UNCHANGED <<prevTree, flat, prevFlat, finishes, submitVars>>

\* line 233: progress.finish()
Finish ==
    /\ pc = "finish"
    /\ ProgressFinish
    /\ pc' = "summary"
    /\ UNCHANGED <<tree, prevTree, flat, prevFlat, cases, lines, warns, snaps,
                   submitVars>>

\* lines 234-267: the empty line, the outcome summary, break
PrintSummary ==
    /\ pc = "summary"
    /\ IF SummaryPanics(Unwrap(resp))
       THEN /\ stdout' = Append(stdout, OutLine("", None, None, None))
            /\ pc' = "panicked"
            /\ UNCHANGED outcome
       ELSE /\ stdout' = Append(stdout, OutLine("", None, None, None))
                            \o Summary(Unwrap(resp))
            /\ pc' = AfterSummary
            /\ outcome' = IF AfterSummary = "returned" THEN "Ok" ELSE outcome
    /\ UNCHANGED <<tree, prevTree, flat, prevFlat, trackerVars, resp, polls,
                   input, stored>>

\* lines 274-279: sleep for the rest of the second, then the next iteration
Sleep ==
    /\ pc = "sleep"
    /\ pc' = "fetch"
    /\ UNCHANGED <<tree, prevTree, flat, prevFlat, trackerVars, submitVars>>

Next == Setup \/ Fetch \/ Extend \/ Finish \/ PrintSummary \/ Sleep

Spec == InitSubmit /\ [][Next]_vars


(***************************************************************************)
(* The config command (main.rs 220-251, config.rs 8-28)                    *)
(*                                                                         *)
(* A string is the sequence of its characters; a HashMap is a function     *)
(* from its keys.                                                          *)
(***************************************************************************)
Chars == {"a", "b", ":", ","}

Strings(n) == UNION {[1..k -> Chars] : k \in 0..n}

ConfyConfig(token, ext_key_map) == [token |-> token, ext_key_map |-> ext_key_map]

\* #[derive(Default)]
ConfyDefault == ConfyConfig(None, None)

\* the configurations found on disk: none written yet, or a token and one
\* mapping stored by an earlier run
StoredConfigs ==
    {ConfyDefault,
     ConfyConfig(Some("old"), Some([e \in {<<"a">>} |-> <<"a">>]))}

\* ConfigArgs: clap's group demands the token or the language argument;
\* load_ok and store_ok tell whether confy::load and confy::store succeed
ConfigInputs ==
    {i \in [token : {None, Some("new")},
            language : {None} \cup {Some(l) : l \in Strings(MaxArgLen)},
            load_ok : BOOLEAN, store_ok : BOOLEAN] :
        /\ i.token # None \/ i.language # None
        /\ ~i.load_ok => i.store_ok}

\* str::split(sep): the pieces between the separators, at least one piece
RECURSIVE SplitFrom(_, _, _, _)
SplitFrom(str, sep, i, piece) ==
    IF i > Len(str) THEN <<piece>>
    ELSE IF str[i] = sep
         THEN <<piece>> \o SplitFrom(str, sep, i + 1, <<>>)
         ELSE SplitFrom(str, sep, i + 1, Append(piece, str[i]))

Split(str, sep) == SplitFrom(str, sep, 1, <<>>)

\* lines 234-237: [ext, key] => Some((ext, key)), _ => None
ParsePair(pair) ==
    LET parts == Split(pair, ":")
    IN  IF Len(parts) = 2 THEN Some(<<parts[1], parts[2]>>) ELSE None

\* mutant: filter_map instead of collecting into an Option, so an item that
\* does not parse is skipped
CollectSkipsNone(options) ==
    LET kept == SelectSeq(options, LAMBDA o : o # None)
    IN  Some([k \in 1..Len(kept) |-> Unwrap(kept[k])])

\* collect::<Option<Vec<_>>>() (line 238): None as soon as one item is None
Collect(options) ==
    IF \E k \in 1..Len(options) : options[k] = None
    THEN None
    ELSE Some([k \in 1..Len(options) |-> Unwrap(options[k])])

\* lines 232-238
ParseLanguage(language) ==
    LET items == Split(language, ",")
    IN  Collect([k \in 1..Len(items) |-> ParsePair(items[k])])

\* HashMap::insert
Insert(map, ext, key) ==
    [e \in DOMAIN map \cup {ext} |-> IF e = ext THEN key ELSE map[e]]

\* the for_each of lines 241-247
RECURSIVE InsertAll(_, _)
InsertAll(map, pairs) ==
    IF pairs = <<>> THEN map
    ELSE InsertAll(Insert(map, Head(pairs)[1], Head(pairs)[2]), Tail(pairs))

\* HashMap::new()
EmptyMap == [e \in {} |-> <<>>]

\* lines 221-250: the error returned or "Ok", and the configuration on disk
\* afterwards
ConfigCommand(disk, i) ==
    IF ~i.load_ok
    THEN [outcome |-> "could not load configuration", stored |-> disk]
    ELSE LET withToken == IF i.token # None
                          THEN [disk EXCEPT !.token = i.token]
                          ELSE disk
             withMap == IF withToken.ext_key_map = None
                        THEN [withToken EXCEPT !.ext_key_map = Some(EmptyMap)]
                        ELSE withToken
             parsed == ParseLanguage(Unwrap(i.language))
             cfg == IF i.language = None
                    THEN withToken
                    ELSE [withMap EXCEPT !.ext_key_map =
                            Some(InsertAll(Unwrap(withMap.ext_key_map),
                                           Unwrap(parsed)))]
         IN  IF i.language # None /\ parsed = None
             THEN [outcome |-> "couldn't parse language argument", stored |-> disk]
             ELSE IF ~i.store_ok
                  THEN [outcome |-> "could not store configuration",
                        stored |-> disk]
                  ELSE [outcome |-> "Ok", stored |-> cfg]

InitConfig ==
    /\ tree = <<>>
    /\ prevTree = None
    /\ flat = None
    /\ prevFlat = None
    /\ cases = <<>>
    /\ lines = <<>>
    /\ spinner = "none"
    /\ warns = 0
    /\ finishes = 0
    /\ snaps = <<>>
    /\ resp = None
    /\ polls = 0
    /\ stdout = <<>>
    /\ outcome = "running"
    /\ input = None
    /\ stored \in StoredConfigs
    /\ pc = "start"

\* Commands::Config: one run of the command; input keeps the arguments and
\* the configuration that was on disk
Config ==
    /\ pc = "start"
    /\ \E i \in ConfigInputs :
          /\ input' = Some([args |-> i, disk |-> stored])
          /\ outcome' = ConfigCommand(stored, i).outcome
          /\ stored' = ConfigCommand(stored, i).stored
    /\ pc' = "returned"
    /\ UNCHANGED <<tree, prevTree, flat, prevFlat, trackerVars, resp, polls,
                   stdout>>

NextConfig == Config

SpecConfig == InitConfig /\ [][NextConfig]_vars

(***************************************************************************)
(* Claims about flatten_cases                                              *)
(***************************************************************************)
ChildCount(unit) == IF unit.kind = "Batch" THEN Len(unit.cases) ELSE 0

RECURSIVE ChildrenBefore(_, _)
ChildrenBefore(t, i) ==
    IF i <= 1 THEN 0 ELSE ChildrenBefore(t, i - 1) + ChildCount(t[i - 1])

\* where the i-th top-level unit of t stands in the flattened sequence
UnitPos(t, i) == i + ChildrenBefore(t, i)

FlatLen(t) == Len(t) + ChildrenBefore(t, Len(t) + 1)

Nums(f) == [p \in 1..Len(f) |-> f[p].num]

NumberingExample == JudgedTree(<<-1, 3, -1>>, 0)

\* C5: every top-level unit (case or batch header) takes its ordinal from one
\* counter that starts at 1 and grows by 1 per top-level unit, so the i-th
\* top-level unit has ordinal i however many cases the batches before it hold;
\* the j-th child of a batch has ordinal j; [Case, Batch(3 cases), Case] is
\* numbered 1, 2, (1, 2, 3), 3.
C5_Numbering ==
    pc = "flattened" =>
      LET out == Unwrap(flat) IN
        /\ Len(out) = FlatLen(tree)
        /\ \A i \in 1..Len(tree) :
              /\ out[UnitPos(tree, i)].num = i
              /\ \A j \in 1..ChildCount(tree[i]) :
                    out[UnitPos(tree, i) + j].num = j
        /\ tree = NumberingExample => Nums(Unwrap(flat)) = <<1, 2, 1, 2, 3, 3>>

C5_Witness ==
    /\ pc = "flattened"
    /\ tree = NumberingExample
    /\ Nums(Unwrap(flat)) = <<1, 2, 1, 2, 3, 3>>

\* C6: flatten_cases is total and order-preserving: the output has (top-level
\* units + batch children) items; a batch yields a header with
\* is_batched_case = FALSE, the batch's total and an empty child list, followed
\* at once by its children in their order, each with is_batched_case = TRUE; a
\* top-level case has is_batched_case = FALSE; the empty tree yields the empty
\* sequence and a batch without cases only its header.
C6_OrderPreserving ==
    pc = "flattened" =>
      LET out == Unwrap(flat) IN
        /\ Len(out) = FlatLen(tree)
        /\ \A i \in 1..Len(tree) :
              LET head == out[UnitPos(tree, i)]
              IN  /\ head.is_batched_case = FALSE
                  /\ tree[i].kind = "Case" => head.item = tree[i]
                  /\ tree[i].kind = "Batch" =>
                        /\ head.item.kind = "Batch"
                        /\ head.item.total = tree[i].total
                        /\ head.item.batch_id = tree[i].batch_id
                        /\ head.item.cases = <<>>
                        /\ \A j \in 1..Len(tree[i].cases) :
                              LET child == out[UnitPos(tree, i) + j]
                              IN  /\ child.is_batched_case = TRUE
                                  /\ child.item = tree[i].cases[j]
        /\ tree = <<>> => out = <<>>

C6_Witness ==
    /\ pc = "flattened"
    /\ Len(tree) = 3
    /\ tree[1].kind = "Batch" /\ Len(tree[1].cases) = 2
    /\ tree[2].kind = "Batch" /\ tree[2].cases = <<>>
    /\ tree[3].kind = "Case"
    /\ Len(Unwrap(flat)) = 5
    /\ Unwrap(flat)[4].item.kind = "Batch" /\ Unwrap(flat)[5].item = tree[3]

\* C7: monotonic-extension prefix law: when T' is T with new top-level units
\* appended or new cases appended to T's trailing batch, flatten_cases(T) is a
\* prefix of flatten_cases(T'), item by item (kind, flag, ordinal, payload).
C7_PrefixLaw ==
    (pc = "flattened" /\ prevTree # None /\ IsExtension(Unwrap(prevTree), tree)) =>
        IsPrefix(Unwrap(prevFlat), Unwrap(flat))

\* the trailing batch of T got new cases and new units follow it
C7_Witness ==
    /\ pc = "flattened" /\ prevTree # None
    /\ Len(Unwrap(prevTree)) = 2 /\ Len(tree) = 3
    /\ Unwrap(prevTree)[2].kind = "Batch"
    /\ Len(Unwrap(prevTree)[2].cases) = 1 /\ Len(tree[2].cases) = 3
    /\ IsPrefix(Unwrap(prevFlat), Unwrap(flat))
    /\ Len(Unwrap(flat)) > Len(Unwrap(prevFlat))

(***************************************************************************)
(* Claims about Progress::extend                                           *)
(***************************************************************************)
\* what identifies a display unit: kind, is_batched_case, ordinal; its position
\* is its index in the sequence
Keys(items) ==
    [p \in 1..Len(items) |->
        <<items[p].item.kind, items[p].is_batched_case, items[p].num>>]

\* C1: for a fresh tracker, extend(S1) then extend(S2) with S2 an extension of
\* S1 (top-level units appended, or cases appended to the trailing batch) prints
\* len(flatten_cases(S2)) lines in total, which is also the length of
\* Progress.cases; never more.
C1_NoReEmission ==
    (Len(snaps) = 2 /\ IsExtension(snaps[1], snaps[2])) =>
        /\ pc # "panicked"
        /\ Len(lines) = FlatLen(snaps[2])
        /\ Len(lines) = Len(cases)

\* S1 printed lines, and S2 added cases to its trailing batch and a new unit
C1_Witness ==
    /\ Len(snaps) = 2 /\ IsExtension(snaps[1], snaps[2])
    /\ Len(snaps[1]) = 1 /\ snaps[1][1].kind = "Batch" /\ snaps[1][1].cases = <<>>
    /\ Len(snaps[2]) = 2 /\ Len(snaps[2][1].cases) = 1
    /\ Len(lines) = 3 /\ Len(cases) = 3

\* C2: extend is a no-op whenever the flattened new snapshot is not longer than
\* the units already emitted, equal or strictly smaller: it prints nothing,
\* leaves the emitted units as they are and does not fail.
C2_NoOpOnNonGrowth ==
    [][(Len(snaps') = Len(snaps) + 1 /\ FlatLen(tree') <= Len(cases)) =>
          (lines' = lines /\ cases' = cases /\ pc' # "panicked")]_vars

\* C3 as claimed: under the growth invariant with any batch growing, trailing or
\* not, the emitted units are flatten_cases of the latest snapshot.
C3_AnyBatchGrowth ==
    (snaps # <<>> /\ \A k \in 1..(Len(snaps) - 1) : IsGrowth(snaps[k], snaps[k + 1])) =>
        /\ pc # "panicked"
        /\ Keys(cases) = Keys(flatten_cases(snaps[Len(snaps)]))
        /\ Len(lines) = Len(cases)

\* C3, amended: for every sequence of snapshots in which each snapshot relates
\* to the one before by top-level units being appended and the case list of the
\* trailing batch alone growing (the batches before it keep their length), the
\* tracker emits every display unit of the latest snapshot exactly once: after
\* each extend the emitted units (kind, is_batched_case, ordinal, position) are
\* flatten_cases of the latest snapshot, none printed twice and none skipped.
C3_ExactlyOnce ==
    (snaps # <<>> /\
     \A k \in 1..(Len(snaps) - 1) : IsTrailingGrowth(snaps[k], snaps[k + 1])) =>
        /\ pc # "panicked"
        /\ Keys(cases) = Keys(flatten_cases(snaps[Len(snaps)]))
        /\ Len(lines) = Len(cases)

\* the trailing batch grew between the snapshots and a unit followed it
C3_Witness ==
    /\ Len(snaps) = 2 /\ IsTrailingGrowth(snaps[1], snaps[2])
    /\ Len(snaps[1]) = 1 /\ snaps[1][1].kind = "Batch" /\ snaps[1][1].cases = <<>>
    /\ Len(snaps[2]) = 2 /\ Len(snaps[2][1].cases) = 1
    /\ snaps[2][2].kind = "Case"
    /\ Keys(cases) = <<<<"Batch", FALSE, 1>>, <<"Case", TRUE, 1>>, <<"Case", FALSE, 2>>>>
    /\ Len(lines) = 3

\* C4: the output is append-only over any sequence of extend calls: the lines
\* printed before a call are a prefix of those printed after it, the new lines
\* are those of flatten_cases(snapshot) in its order, and an emitted unit keeps
\* its line and its entry of Progress.cases whatever a later snapshot carries
\* at its position.
C4_AppendOnly ==
    [][/\ IsPrefix(lines, lines')
       /\ IsPrefix(cases, cases')
       /\ \A k \in (Len(lines) + 1)..Len(lines') :
             /\ cases'[k] = flatten_cases(tree')[k]
             /\ lines'[k] = gen_msg(flatten_cases(tree')[k])]_vars

\* the second snapshot carries another status for the first unit and one more
\* unit: the first line is still the one of the first snapshot
C4_Witness ==
    /\ Len(snaps) = 2 /\ pc = "active"
    /\ Len(snaps[1]) = 1 /\ snaps[1][1].kind = "Case"
    /\ Len(snaps[2]) = 2 /\ snaps[2][1].kind = "Case"
    /\ snaps[2][1].status # snaps[1][1].status
    /\ Len(lines) = 2
    /\ lines[1] = gen_msg(flatten_cases(snaps[1])[1])
    /\ lines[1] # gen_msg(flatten_cases(snaps[2])[1])
    /\ cases[1].item = snaps[1][1]

(***************************************************************************)
(* Claims about the poll loop of submit                                    *)
(***************************************************************************)
\* the empty lines of println!() (line 234), one per outcome summary
Summaries == Len(SelectSeq(stdout, LAMBDA l : l.text = ""))

HasResult(r) == r # None /\ Unwrap(r).kind = "data" /\ Unwrap(r).result # None

\* C8: in every iteration the snapshot's cases go to Progress::extend before
\* the terminal result is looked at; in the iteration whose snapshot carries a
\* result, all its case lines not yet shown are printed, then finish() stops
\* and clears the spinner, then the outcome summary is printed, then the loop
\* stops without sleeping or fetching again; no case line is printed after the
\* summary.
C8_IterationOrder ==
    [][/\ pc = "extend" =>
             /\ snaps' = Append(snaps, Unwrap(resp).cases)
             /\ finishes' = finishes /\ stdout' = stdout
       /\ pc' = "finish" =>
             /\ pc = "extend" /\ HasResult(resp)
             /\ Len(lines') = FlatLen(Unwrap(resp).cases)
       /\ finishes' # finishes =>
             /\ pc = "finish" /\ stdout = <<>>
             /\ spinner' = "cleared" /\ lines' = lines
       /\ stdout' # stdout =>
             /\ pc = "summary" /\ spinner = "cleared" /\ finishes = 1
             /\ lines' = lines /\ snaps' = snaps /\ polls' = polls
             /\ pc' \in {"returned", "panicked"}
       /\ stdout # <<>> =>
             /\ lines' = lines /\ polls' = polls
             /\ pc' \notin {"sleep", "fetch", "extend"}]_vars

\* two iterations, both printing case lines, the second carrying the result
C8_Witness ==
    /\ pc = "returned" /\ outcome = "Ok"
    /\ polls = 2 /\ Len(snaps) = 2
    /\ FlatLen(snaps[1]) = 1 /\ Len(lines) = 2
    /\ spinner = "cleared"
    /\ Len(stdout) = 3 /\ stdout[2].text = "Resources:"

\* C9: over a run of the poll loop the tracker is finished at most once and the
\* outcome summary is produced at most once, both only in the first iteration
\* whose snapshot has a result; a snapshot without a result produces no summary
\* and no call of finish(); after finish() there is no extend call and no fetch.
C9_FinishOnce ==
    [][/\ finishes' <= 1
       /\ (finishes' # finishes \/ stdout' # stdout) => HasResult(resp)
       /\ ~HasResult(resp') => (finishes' = 0 /\ stdout' = <<>>)
       /\ HasResult(resp) => (polls' = polls /\ resp' = resp)
       /\ stdout' # <<>> => (finishes' = 1 /\ Summaries' = 1)
       /\ finishes >= 1 =>
             /\ finishes' = finishes
             /\ snaps' = snaps /\ lines' = lines /\ cases' = cases
             /\ polls' = polls]_vars

\* the first snapshot had no result, the second was a compile error
C9_Witness ==
    /\ pc = "returned" /\ outcome = "Ok"
    /\ polls = 2 /\ Len(snaps) = 2
    /\ finishes = 1 /\ Summaries = 1
    /\ Unwrap(Unwrap(resp).result) = "CE"
    /\ Len(stdout) = 2

\* C10: the spinner acquired by Progress::new is released, stopped and cleared
\* through finish(), on every path by which submit returns after the tracker
\* was created: the terminal result, a failed fetch or JSON decode, an API error
\* object, a response with neither data nor error.
C10_SpinnerReleased ==
    (pc = "returned" /\ spinner # "none") =>
        (spinner = "cleared" /\ finishes = 1)

\* C11: the poll loop stops only on a terminal result or an error: while the
\* fetched data has no result it keeps polling (sleep, then the next fetch); a
\* snapshot with a result or a failed fetch ends the loop in that iteration,
\* with Ok after a result and with Err after an error.
C11_StopsOnResultOrError ==
    [][/\ pc' # "panicked"
       /\ (pc = "extend" /\ ~HasResult(resp)) => pc' = "sleep"
       /\ pc = "sleep" => (pc' = "fetch" /\ polls' = polls)
       /\ (pc' = "returned" /\ polls' >= 1) =>
             \/ HasResult(resp') /\ outcome' = "Ok"
             \/ /\ FetchError(Unwrap(resp')) # ""
                /\ outcome' = FetchError(Unwrap(resp'))
                /\ polls' = polls + 1
       /\ (HasResult(resp) \/ (resp # None /\ FetchError(Unwrap(resp)) # "")) =>
             polls' = polls]_vars

\* C15: polling starts only when the POST of the submission captured a
\* redirect URL and answered 302; without a redirect, or with any other
\* status, submit returns an error before the tracker and its spinner exist
\* and before any request to the submission API; a missing redirect is
\* reported before the status is looked at.
C15_PollingNeedsRedirect302 ==
    input # None =>
        LET i == Unwrap(input)
        IN  /\ (spinner # "none" \/ polls >= 1 \/ resp # None \/ pc # "returned")
                => (i.redirected /\ i.status = 302)
            /\ (~i.redirected \/ i.status # 302) =>
                  /\ pc = "returned"
                  /\ outcome \notin {"running", "Ok"}
                  /\ spinner = "none" /\ finishes = 0
                  /\ polls = 0 /\ resp = None
            /\ (i.langs = "ok" /\ i.key_known /\ i.sent /\ ~i.redirected) =>
                  outcome = "Submission request did not get redirected to the submission page"

\* a POST answered 401 without a redirect: the missing redirect is the error
C15_Witness ==
    /\ input # None
    /\ Unwrap(input).langs = "ok" /\ Unwrap(input).key_known /\ Unwrap(input).sent
    /\ ~Unwrap(input).redirected /\ Unwrap(input).status = 401
    /\ pc = "returned" /\ polls = 0 /\ spinner = "none"

\* the lines of the outcome summary after the empty line
SummaryBody == SubSeq(stdout, 2, Len(stdout))

\* C16: for the results IE, CE and AB the summary reads neither time nor
\* memory, so it is printed (one line, no score) even when both are absent;
\* for TLE the time is not read ("---" is shown) but the memory is; for every
\* other result both are read; the final score line is printed exactly for the
\* results other than IE, CE and AB.
C16_SummaryReads ==
    stdout # <<>> =>
        LET r == Unwrap(resp)
            result == Unwrap(r.result)
        IN  /\ result \in {"IE", "CE", "AB"} =>
                  /\ pc = "returned" /\ outcome = "Ok"
                  /\ Len(SummaryBody) = 1
                  /\ SummaryBody[1].time = None
                  /\ SummaryBody[1].memory = None
                  /\ SummaryBody[1].score = None
            /\ result = "TLE" =>
                  IF r.memory = None
                  THEN pc = "panicked" /\ SummaryBody = <<>>
                  ELSE /\ pc = "returned" /\ outcome = "Ok"
                       /\ Len(SummaryBody) = 2
                       /\ SummaryBody[1].time = None
                       /\ SummaryBody[1].memory = Some(MemoryMB100(Unwrap(r.memory)))
                       /\ SummaryBody[2].score = <<r.case_points, r.case_total>>
            /\ result \notin {"IE", "CE", "AB", "TLE"} =>
                  IF r.time = None \/ r.memory = None
                  THEN pc = "panicked" /\ SummaryBody = <<>>
                  ELSE /\ pc = "returned" /\ outcome = "Ok"
                       /\ Len(SummaryBody) = 2
                       /\ SummaryBody[1].time = r.time
                       /\ SummaryBody[1].memory = Some(MemoryMB100(Unwrap(r.memory)))
                       /\ SummaryBody[2].score = <<r.case_points, r.case_total>>

\* a compilation error whose snapshot has neither time nor memory
C16_Witness ==
    /\ HasResult(resp)
    /\ Unwrap(Unwrap(resp).result) = "CE"
    /\ Unwrap(resp).time = None /\ Unwrap(resp).memory = None
    /\ pc = "returned" /\ Len(stdout) = 2

(***************************************************************************)
(* Claims about the rendered lines                                         *)
(***************************************************************************)
\* the positions of the emitted case lines
CaseLines == {p \in 1..Len(lines) : cases[p].item.kind = "Case"}

Label(unit) ==
    <<IF unit.is_batched_case THEN "  Case" ELSE "Test case", unit.num>>

\* C12 as stated: a case with status SC renders as its label and the dash
\* only, with no [time, memory] suffix and no (points/total) suffix, top-level
\* or nested in a batch.
C12_ScBare ==
    \A p \in CaseLines :
        cases[p].item.status = "SC" =>
            /\ <<lines[p].title, lines[p].num>> = Label(cases[p])
            /\ lines[p].status.text = "-"
            /\ lines[p].time_and_mem = <<>>
            /\ lines[p].points = <<>>

\* C12 amended: a case with status SC renders as its label and the dash with
\* no [time, memory] suffix; nested in a batch it has no (points/total) suffix,
\* while a top-level SC case still carries its (points/total) suffix.
C12_ScDash ==
    \A p \in CaseLines :
        cases[p].item.status = "SC" =>
            /\ <<lines[p].title, lines[p].num>> = Label(cases[p])
            /\ lines[p].status.text = "-"
            /\ lines[p].time_and_mem = <<>>
            /\ lines[p].batch_points = <<>>
            /\ lines[p].points =
                  IF cases[p].is_batched_case
                  THEN <<>>
                  ELSE <<cases[p].item.points, cases[p].item.total>>

\* an SC line at top level and an SC line inside a batch
C12_Witness ==
    /\ \E p \in CaseLines :
          cases[p].item.status = "SC" /\ ~cases[p].is_batched_case
    /\ \E p \in CaseLines :
          cases[p].item.status = "SC" /\ cases[p].is_batched_case

\* C13: every case line whose status is not SC has the [time, memory] suffix;
\* it has the (points/total) suffix exactly when the case is top-level, never
\* when it is nested in a batch; a batch header shows "(?/total points)" with
\* the batch's total and neither earned points nor anything of its children.
C13_Suffixes ==
    \A p \in 1..Len(lines) :
        IF cases[p].item.kind = "Case"
        THEN cases[p].item.status # "SC" =>
                /\ lines[p].time_and_mem =
                      <<cases[p].item.time, MemoryMB100(cases[p].item.memory)>>
                /\ (lines[p].points # <<>>) <=> ~cases[p].is_batched_case
                /\ ~cases[p].is_batched_case =>
                      lines[p].points = <<cases[p].item.points, cases[p].item.total>>
                /\ lines[p].batch_points = <<>>
        ELSE /\ lines[p].title = "Batch"
             /\ lines[p].batch_points = <<cases[p].item.total>>
             /\ lines[p].points = <<>>
             /\ lines[p].time_and_mem = <<>>
             /\ lines[p].status.text = ""
             /\ lines[p].num = cases[p].num

\* a top-level case, then a batch header and a child of that batch, none SC
C13_Witness ==
    /\ Len(lines) = 3
    /\ cases[1].item.kind = "Case" /\ cases[1].item.status = "WA"
    /\ cases[2].item.kind = "Batch"
    /\ cases[3].item.kind = "Case" /\ cases[3].is_batched_case
    /\ cases[3].item.status = "AC"
    /\ Len(tree[2].cases) = 1

\* the style class of a status code
StyleClass(status, points, total) ==
    IF status = "AC" /\ points = total THEN <<"AC", "green">>
    ELSE IF status = "AC" /\ points < total THEN <<"AC", "yellow.bright">>
    ELSE IF status = "WA" THEN <<"WA", "red.bright">>
    ELSE IF status = "TLE" THEN <<"TLE", "black">>
    ELSE IF status = "SC" THEN <<"-", "black">>
    ELSE IF status = "MLE" THEN <<"MLE", "red">>
    ELSE IF status = "OLE" THEN <<"OLE", "red">>
    ELSE IF status = "RTE" THEN <<"RTE", "red">>
    ELSE IF status = "IR" THEN <<"IR", "red">>
    ELSE <<status, "plain">>

Unrecognized ==
    {p \in CaseLines :
        cases[p].item.status \notin
            {"AC", "WA", "TLE", "SC", "MLE", "OLE", "RTE", "IR"}}

\* C14: every case status gets exactly one style class and rendering never
\* fails: AC with all points is success, AC with fewer points partial success,
\* WA failure, TLE neutral, SC the dash, MLE/OLE/RTE/IR failure with the code
\* verbatim, any other code verbatim with one diagnostic logged; after an
\* unrecognized code the tracker still emits every remaining unit of the
\* snapshot and of the later snapshots.
C14_StyleClasses ==
    /\ pc # "panicked"
    /\ \A p \in CaseLines :
          <<lines[p].status.text, lines[p].status.style>> =
              StyleClass(cases[p].item.status, cases[p].item.points,
                         cases[p].item.total)
    /\ warns = Cardinality(Unrecognized)
    /\ Len(snaps) > 0 =>
          /\ Len(lines) = Len(flatten_cases(snaps[Len(snaps)]))
          /\ cases = flatten_cases(snaps[Len(snaps)])

\* an unrecognized code, then a unit of the same snapshot and a unit that only
\* the next snapshot has
C14_Witness ==
    /\ Len(snaps) = 2
    /\ Len(lines) = 3
    /\ Len(flatten_cases(snaps[1])) = 2
    /\ 1 \in Unrecognized
    /\ warns = 1

(***************************************************************************)
(* Claims about the config command                                         *)
(***************************************************************************)
\* the positions where an item of a comma-separated string starts
ItemStarts(str) ==
    {1} \cup {p + 1 : p \in {q \in 1..Len(str) : str[q] = ","}}

\* the item that starts at position p
ItemAt(str, p) ==
    LET stops == {q \in p..Len(str) : str[q] = ","} \cup {Len(str) + 1}
        stop == CHOOSE q \in stops : \A o \in stops : q <= o
    IN  SubSeq(str, p, stop - 1)

Colons(item) == {q \in 1..Len(item) : item[q] = ":"}

\* ext and key of an item with exactly one ':'
ExtOf(item) == SubSeq(item, 1, (CHOOSE q \in Colons(item) : TRUE) - 1)
KeyOf(item) == SubSeq(item, (CHOOSE q \in Colons(item) : TRUE) + 1, Len(item))

AllItemsParse(str) ==
    \A p \in ItemStarts(str) : Cardinality(Colons(ItemAt(str, p))) = 1

\* the starts of the items that name extension ext
StartsFor(str, ext) == {p \in ItemStarts(str) : ExtOf(ItemAt(str, p)) = ext}

\* C17: the config command updates the stored configuration all or nothing:
\* when an item of the language argument does not split into exactly two
\* parts on ':', the command fails and the configuration on disk is as
\* before, a token of the same invocation included; when every item parses,
\* the token and all pairs are stored together, a later pair for an
\* extension overriding an earlier one.
C17_AllOrNothing ==
    (pc = "returned" /\ Unwrap(input).args.load_ok) =>
        LET args == Unwrap(input).args
            disk == Unwrap(input).disk
            oldMap == IF disk.ext_key_map = None
                      THEN EmptyMap ELSE Unwrap(disk.ext_key_map)
        IN  IF args.language # None /\ ~AllItemsParse(Unwrap(args.language))
            THEN /\ outcome = "couldn't parse language argument"
                 /\ stored = disk
            ELSE args.store_ok =>
                 /\ outcome = "Ok"
                 /\ stored.token = IF args.token # None THEN args.token
                                   ELSE disk.token
                 /\ IF args.language = None
                    THEN stored.ext_key_map = disk.ext_key_map
                    ELSE LET str == Unwrap(args.language)
                             map == Unwrap(stored.ext_key_map)
                             exts == {ExtOf(ItemAt(str, p)) : p \in ItemStarts(str)}
                         IN  /\ DOMAIN map = DOMAIN oldMap \cup exts
                             /\ \A e \in DOMAIN oldMap \ exts : map[e] = oldMap[e]
                             /\ \A e \in exts :
                                   \E p \in StartsFor(str, e) :
                                      /\ \A o \in StartsFor(str, e) : o <= p
                                      /\ map[e] = KeyOf(ItemAt(str, p))

\* a token together with a language argument whose first item parses and
\* whose second does not: nothing is stored
C17_Witness ==
    /\ pc = "returned"
    /\ Unwrap(input).args.load_ok /\ Unwrap(input).args.store_ok
    /\ Unwrap(input).args.token = Some("new")
    /\ Unwrap(input).args.language = Some(<<"b", ":", "a", ",", "b">>)
    /\ Unwrap(input).disk.token = Some("old")
    /\ stored = Unwrap(input).disk

====
